---- MODULE Spec2Model ----
(***************************************************************************)
(* Model of karabo/binary_reader.py: the reader of the OSKAR binary        *)
(* container format (FileHeader, Tag, OskarBinaryReader).                  *)
(*                                                                         *)
(* Bytes are integers 0..255 and a bytes object is a sequence of them.     *)
(* A Python int that may need more than 31 bits is kept as its base-2^16   *)
(* digits, most significant first (only the first digit of a signed value  *)
(* may be negative), so that two such ints are equal exactly when their    *)
(* digit sequences are equal.  One-byte fields are plain integers.         *)
(***************************************************************************)
EXTENDS Integers, Sequences, FiniteSets, TLC

(***************************************************************************)
(* Python's operators on non-negative ints and on bytes                    *)
(***************************************************************************)

RECURSIVE BitAnd(_, _)
BitAnd(a, b) ==
    IF a = 0 \/ b = 0 THEN 0
    ELSE (a % 2) * (b % 2) + 2 * BitAnd(a \div 2, b \div 2)

RECURSIVE BitXor(_, _)
BitXor(a, b) ==
    IF a = 0 THEN b
    ELSE IF b = 0 THEN a
    ELSE ((a + b) % 2) + 2 * BitXor(a \div 2, b \div 2)

\* b[-n:] for a bytes object b and n > 0
LastBytes(b, n) ==
    IF Len(b) <= n THEN b ELSE SubSeq(b, Len(b) - n + 1, Len(b))

\* b[:-n] for a bytes object b and n > 0
DropLastBytes(b, n) ==
    IF Len(b) <= n THEN << >> ELSE SubSeq(b, 1, Len(b) - n)

Reverse(s) == [i \in 1..Len(s) |-> s[Len(s) + 1 - i]]

(***************************************************************************)
(* struct: standard sizes and integer decoding                             *)
(***************************************************************************)

\* digits (base 2^16, most significant first) of the unsigned integer whose
\* little-endian bytes are bs; Len(bs) is even
UnsignedLE(bs) ==
    [k \in 1..(Len(bs) \div 2) |->
        bs[Len(bs) - 2 * k + 2] * 256 + bs[Len(bs) - 2 * k + 1]]

\* the same bytes read as a two's complement integer
SignedLE(bs) ==
    LET u == UnsignedLE(bs)
    IN  [k \in 1..Len(u) |-> IF k = 1 /\ u[1] >= 32768 THEN u[1] - 65536 ELSE u[k]]

(***************************************************************************)
(* crc32c.crc32c(data): CRC-32C (Castagnoli), reflected polynomial         *)
(* 0x82F63B78, register preset to all ones and complemented at the end.    *)
(* The register is the pair <<high 16 bits, low 16 bits>>.                 *)
(***************************************************************************)

CrcShift1(r) ==
    LET hi == r[1] \div 2
        lo == (r[2] \div 2) + (r[1] % 2) * 32768
    IN  IF r[2] % 2 = 1 THEN << BitXor(hi, 33526), BitXor(lo, 15224) >>   \* 0x82F6, 0x3B78
        ELSE << hi, lo >>

RECURSIVE CrcShift(_, _)
CrcShift(r, n) ==
    IF n = 0 THEN r
    ELSE LET s == CrcShift1(r)
         IN  IF s[1] >= 0 THEN CrcShift(s, n - 1) ELSE s

CrcTable == [n \in 0..255 |-> CrcShift(<< 0, n >>, 8)]

CrcByte(r, byte) ==
    LET t == CrcTable[BitXor(r[2] % 256, byte)]
        hi == r[1] \div 256
        lo == (r[2] \div 256) + (r[1] % 256) * 256
    IN  << BitXor(hi, t[1]), BitXor(lo, t[2]) >>

RECURSIVE CrcUpdate(_, _, _)
CrcUpdate(r, data, i) ==
    IF i > Len(data) THEN r
    ELSE LET s == CrcByte(r, data[i])
         IN  IF s[1] >= 0 THEN CrcUpdate(s, data, i + 1) ELSE s

crc32c(data) ==
    LET r == CrcUpdate(<< 65535, 65535 >>, data, 1)
    IN  << 65535 - r[1], 65535 - r[2] >>

(***************************************************************************)
(* ctypes: the field types the two structures use, as CPython defines      *)
(* them where C's long has 8 bytes: c_uint32 is c_uint ('I') and c_uint64  *)
(* is c_ulong ('L').  length > 0 marks an array type (it has _length_).    *)
(***************************************************************************)

c_char == [type |-> "c", size |-> 1, length |-> 0]
c_uint8 == [type |-> "B", size |-> 1, length |-> 0]
c_uint32 == [type |-> "I", size |-> 4, length |-> 0]
c_uint64 == [type |-> "L", size |-> 8, length |-> 0]
c_char_array(n) == [type |-> "c", size |-> n, length |-> n]

FileHeader ==
    [name |-> "FileHeader",
     fields |-> <<
        << "desc", c_char_array(9) >>,
        << "ver", c_uint8 >>,
        << "littleEndinan", c_uint8 >>,
        << "voidptrSize", c_uint8 >>,
        << "intSize", c_uint8 >>,
        << "longSize", c_uint8 >>,
        << "floatSize", c_uint8 >>,
        << "doubleSize", c_uint8 >>,
        << "oskarVersion", c_uint32 >>,
        << "reserved0", c_uint64 >>,
        << "reserved1", c_uint64 >>,
        << "reserved2", c_uint64 >>,
        << "reserved3", c_uint64 >>,
        << "reserved4", c_uint64 >>,
        << "reserved5", c_uint32 >> >>]

\* Tag with groupID and tagID declared in the opposite order
Tag_SwappedIds ==
    [name |-> "Tag",
     fields |-> <<
        << "t", c_char >>,
        << "AorB", c_char >>,
        << "g", c_char >>,
        << "payloadElementSize", c_uint8 >>,
        << "chunkFlags", c_uint8 >>,
        << "payloadDataType", c_uint8 >>,
        << "tagID", c_uint8 >>,
        << "groupID", c_uint8 >>,
        << "userIdx", c_uint32 >>,
        << "payloadSize", c_uint64 >> >>]

Tag ==
    [name |-> "Tag",
     fields |-> <<
        << "t", c_char >>,
        << "AorB", c_char >>,
        << "g", c_char >>,
        << "payloadElementSize", c_uint8 >>,
        << "chunkFlags", c_uint8 >>,
        << "payloadDataType", c_uint8 >>,
        << "groupID", c_uint8 >>,
        << "tagID", c_uint8 >>,
        << "userIdx", c_uint32 >>,
        << "payloadSize", c_uint64 >> >>]

(***************************************************************************)
(* struct.unpack.  A format is a byte-order character and a sequence of    *)
(* items [count, code]; with '<' or '>' the sizes are the standard ones    *)
(* and there is no padding.  '@' is the format without a prefix: native    *)
(* order, which is little-endian on the hosts the package is built for.    *)
(***************************************************************************)

NativeOrder == "<"

StdSize(code) ==
    CASE code \in {"c", "b", "B", "s"} -> 1
      [] code \in {"h", "H"} -> 2
      [] code \in {"i", "I", "l", "L", "f"} -> 4
      [] code \in {"q", "Q", "d"} -> 8

ItemSize(item) == item.count * StdSize(item.code)

RECURSIVE calcsize(_, _)
calcsize(items, n) ==
    IF n = 0 THEN 0 ELSE calcsize(items, n - 1) + ItemSize(items[n])

\* the value of one item, read from the bytes bs of its size
UnpackItem(order, item, bs) ==
    LET le == IF (IF order = "@" THEN NativeOrder ELSE order) = "<"
              THEN bs ELSE Reverse(bs)
    IN  CASE item.code \in {"s", "c"} -> bs
          [] item.code = "B" -> bs[1]
          [] item.code \in {"H", "I", "L", "Q"} -> UnsignedLE(le)
          [] item.code \in {"h", "i", "l", "q"} -> SignedLE(le)

struct_unpack(frmt, byte_str) ==
    IF Len(byte_str) # calcsize(frmt.items, Len(frmt.items))
    THEN [error |-> "struct.error", data |-> << >>]
    ELSE [error |-> "",
          data |-> [k \in 1..Len(frmt.items) |->
                      LET off == calcsize(frmt.items, k - 1)
                      IN  UnpackItem(frmt.order, frmt.items[k],
                            SubSeq(byte_str, off + 1, off + ItemSize(frmt.items[k])))]]

(***************************************************************************)
(* PackedBinaryStructure                                                   *)
(***************************************************************************)

\* FieldFormat without the promotion of an 8-byte 'L' or 'l' to 'Q' or 'q'
FieldFormat_NoQuad(f_ctype) ==
    IF f_ctype.length > 0 THEN [count |-> f_ctype.length, code |-> "s"]
    ELSE [count |-> 1, code |-> f_ctype.type]

\* the format item create_from_bytes derives from one field's ctype
FieldFormat(f_ctype) ==
    IF f_ctype.length > 0 THEN [count |-> f_ctype.length, code |-> "s"]
    ELSE IF f_ctype.type = "L" /\ f_ctype.size = 8 THEN [count |-> 1, code |-> "Q"]
    ELSE IF f_ctype.type = "l" /\ f_ctype.size = 8 THEN [count |-> 1, code |-> "q"]
    ELSE [count |-> 1, code |-> f_ctype.type]

\* cls(*data): the positional arguments become the fields in declaration order
NewStructure(cls, data) ==
    [f \in {cls.fields[k][1] : k \in 1..Len(cls.fields)} |->
        data[CHOOSE k \in 1..Len(cls.fields) : cls.fields[k][1] = f]]

\* create_from_bytes taking the byte order from the header's littleEndinan byte
create_from_bytes_FlagOrder(cls, byte_str) ==
    LET big == cls.name = "FileHeader" /\ Len(byte_str) >= 11 /\ byte_str[11] = 0
        frmt == [order |-> IF big THEN ">" ELSE "<",
                 items |-> [k \in 1..Len(cls.fields) |-> FieldFormat(cls.fields[k][2])]]
        r == struct_unpack(frmt, byte_str)
    IN  IF r.error # "" THEN [error |-> r.error, obj |-> << >>]
        ELSE [error |-> "", obj |-> NewStructure(cls, r.data)]

create_from_bytes(cls, byte_str) ==
    LET frmt == [order |-> "<",
                 items |-> [k \in 1..Len(cls.fields) |-> FieldFormat(cls.fields[k][2])]]
        r == struct_unpack(frmt, byte_str)
    IN  IF r.error # "" THEN [error |-> r.error, obj |-> << >>]
        ELSE [error |-> "", obj |-> NewStructure(cls, r.data)]

(***************************************************************************)
(* The layout ctypes gives a Structure without _pack_: each field at the   *)
(* next multiple of its type's alignment (its size for an integer type, 1  *)
(* for a char array), the structure padded to its largest alignment.       *)
(***************************************************************************)

alignment(f_ctype) == IF f_ctype.length > 0 THEN 1 ELSE f_ctype.size

AlignUp(n, a) == ((n + a - 1) \div a) * a

RECURSIVE FieldOffset(_, _)
FieldOffset(cls, k) ==
    LET before == IF k = 1 THEN 0
                  ELSE FieldOffset(cls, k - 1) + cls.fields[k - 1][2].size
    IN  AlignUp(before, alignment(cls.fields[k][2]))

sizeof(cls) ==
    LET n == Len(cls.fields)
        largest == CHOOSE a \in { alignment(cls.fields[k][2]) : k \in 1..n } :
                        \A k \in 1..n : alignment(cls.fields[k][2]) <= a
    IN  AlignUp(FieldOffset(cls, n) + cls.fields[n][2].size, largest)

\* cls.from_buffer(source): the fields are read in place, at their offsets in
\* the ctypes layout, from a writable buffer of at least sizeof(cls) bytes
from_buffer(cls, src) ==
    IF src.readonly
    THEN [error |-> "TypeError: underlying buffer is not writable", obj |-> << >>]
    ELSE IF Len(src.bytes) < sizeof(cls)
    THEN [error |-> "ValueError: Buffer size too small", obj |-> << >>]
    ELSE [error |-> "",
          obj |-> [name \in { cls.fields[k][1] : k \in 1..Len(cls.fields) } |->
                    LET k == CHOOSE j \in 1..Len(cls.fields) : cls.fields[j][1] = name
                        item == FieldFormat(cls.fields[k][2])
                        off == FieldOffset(cls, k)
                    IN  UnpackItem("<", item,
                                   SubSeq(src.bytes, off + 1, off + ItemSize(item)))]]

RECURSIVE legacyPopCount(_)
legacyPopCount(byteInput) ==
    IF byteInput > 0
    THEN BitAnd(byteInput, 1) + legacyPopCount(byteInput \div 2)
    ELSE 0

\* int.bit_count(): the number of ones in the binary representation
fastPopCount(byteInput) ==
    Cardinality({k \in 0..30 : (byteInput \div (2 ^ k)) % 2 = 1})

popCount(version_info, byteInput) ==
    IF version_info[1] >= 3 /\ version_info[2] >= 10
    THEN fastPopCount(byteInput)
    ELSE legacyPopCount(byteInput)

(***************************************************************************)
(* Tag: the predicates on chunkFlags and payloadDataType.  Those written   *)
(* without a comparison return the masked int, which the callers use for   *)
(* its truth value.                                                        *)
(***************************************************************************)

isPayloadBigEndian(self) == BitAnd(self.chunkFlags, 16)
usesCRC32CEncoding(self) == BitAnd(self.chunkFlags, 64)
isTagExtended(self) == BitAnd(self.chunkFlags, 128)
isCharType(self) == BitAnd(self.payloadDataType, 1) # 0
isIntType(self) == BitAnd(self.payloadDataType, 2) # 0
isFloatType(self) == BitAnd(self.payloadDataType, 4) # 0
isDoubleType(self) == BitAnd(self.payloadDataType, 8) # 0
\* isMatrix with the mask of isComplex
isMatrix_Bit5(self) == BitAnd(self.payloadDataType, 32)
isMatrix(self) == BitAnd(self.payloadDataType, 64)
isComplex(self) == BitAnd(self.payloadDataType, 32)

\* isSane with the reserved-bit mask 0b1000_0000: bit 4 is not looked at
isSane_IgnoresBit4(version_info, self) ==
    /\ BitAnd(self.payloadDataType, 128) = 0
    /\ popCount(version_info, BitAnd(self.payloadDataType, 15)) = 1

isSane(version_info, self) ==
    /\ BitAnd(self.payloadDataType, 144) = 0
    /\ popCount(version_info, BitAnd(self.payloadDataType, 15)) = 1

\* printPayloadDataType with `elif self.isMatrix()`: a tag that is complex and
\* matrix is described as complex only
printPayloadDataType_ElifMatrix(version_info, self) ==
    IF ~isSane(version_info, self)
    THEN [error |-> "AssertionError: Typedescription bits that should be 0 are not",
          value |-> << >>]
    ELSE [error |-> "",
          value |->
            (IF isCharType(self) THEN << "1 byte char type " >>
             ELSE IF isIntType(self) THEN << "4 byte integer type " >>
             ELSE IF isFloatType(self) THEN << "4 byte float type " >>
             ELSE IF isDoubleType(self) THEN << "8 byte double type " >>
             ELSE << >>)
            \o (IF isComplex(self) # 0
                THEN << "complex data, first real, than imaginary " >>
                ELSE IF isMatrix(self) # 0
                THEN << "2x2 matrix data, [ab, cd] " >> ELSE << >>)]

\* printPayloadDataType: the assertion, else the description as the list of
\* its parts
printPayloadDataType(version_info, self) ==
    IF ~isSane(version_info, self)
    THEN [error |-> "AssertionError: Typedescription bits that should be 0 are not",
          value |-> << >>]
    ELSE [error |-> "",
          value |->
            (IF isCharType(self) THEN << "1 byte char type " >>
             ELSE IF isIntType(self) THEN << "4 byte integer type " >>
             ELSE IF isFloatType(self) THEN << "4 byte float type " >>
             ELSE IF isDoubleType(self) THEN << "8 byte double type " >>
             ELSE << >>)
            \o (IF isComplex(self) # 0
                THEN << "complex data, first real, than imaginary " >> ELSE << >>)
            \o (IF isMatrix(self) # 0
                THEN << "2x2 matrix data, [ab, cd] " >> ELSE << >>)]

(***************************************************************************)
(* str(payload, "utf-8"): strict UTF-8 decoding to code points, or         *)
(* UnicodeDecodeError.                                                     *)
(***************************************************************************)

IsCont(b, i) == i <= Len(b) /\ b[i] >= 128 /\ b[i] <= 191

\* the number of bytes of the well-formed sequence starting at b[i], 0 if none
Utf8Len(b, i) ==
    LET c == b[i]
        second(lo, hi) == i + 1 <= Len(b) /\ b[i + 1] >= lo /\ b[i + 1] <= hi
    IN  IF c <= 127 THEN 1
        ELSE IF c >= 194 /\ c <= 223 THEN (IF IsCont(b, i + 1) THEN 2 ELSE 0)
        ELSE IF c = 224 THEN (IF second(160, 191) /\ IsCont(b, i + 2) THEN 3 ELSE 0)
        ELSE IF c = 237 THEN (IF second(128, 159) /\ IsCont(b, i + 2) THEN 3 ELSE 0)
        ELSE IF c >= 225 /\ c <= 239
             THEN (IF IsCont(b, i + 1) /\ IsCont(b, i + 2) THEN 3 ELSE 0)
        ELSE IF c = 240
             THEN (IF second(144, 191) /\ IsCont(b, i + 2) /\ IsCont(b, i + 3)
                   THEN 4 ELSE 0)
        ELSE IF c = 244
             THEN (IF second(128, 143) /\ IsCont(b, i + 2) /\ IsCont(b, i + 3)
                   THEN 4 ELSE 0)
        ELSE IF c >= 241 /\ c <= 243
             THEN (IF IsCont(b, i + 1) /\ IsCont(b, i + 2) /\ IsCont(b, i + 3)
                   THEN 4 ELSE 0)
        ELSE 0

Utf8CodePoint(b, i, n) ==
    CASE n = 1 -> b[i]
      [] n = 2 -> (b[i] - 192) * 64 + (b[i + 1] - 128)
      [] n = 3 -> (b[i] - 224) * 4096 + (b[i + 1] - 128) * 64 + (b[i + 2] - 128)
      [] n = 4 -> (b[i] - 240) * 262144 + (b[i + 1] - 128) * 4096
                    + (b[i + 2] - 128) * 64 + (b[i + 3] - 128)

RECURSIVE Utf8Decode(_, _, _)
Utf8Decode(b, i, acc) ==
    IF i > Len(b) THEN [error |-> "", value |-> acc]
    ELSE LET n == Utf8Len(b, i)
         IN  IF n = 0 THEN [error |-> "UnicodeDecodeError", value |-> << >>]
             ELSE Utf8Decode(b, i + n, Append(acc, Utf8CodePoint(b, i, n)))

(***************************************************************************)
(* Python values of the decoded payload                                    *)
(***************************************************************************)

PyNone == [type |-> "NoneType", val |-> << >>]
PyStr(s) == [type |-> "str", val |-> s]

(***************************************************************************)
(* OskarBinaryReader                                                       *)
(***************************************************************************)

HEADER_SIZE == 64
TAG_SIZE == 20

interpreteString(payload) ==
    LET r == Utf8Decode(payload, 1, << >>)
    IN  [error |-> r.error, value |-> PyStr(r.value)]

\* the body is `pass`: the call returns None
interpreteNumbers(payload, isMatrixArg, isComplexArg) ==
    [error |-> "", value |-> PyNone]

\* _readCRCFromData
ReadCRCFromData(payload) ==
    LET crcBytes == LastBytes(payload, 4)
        r == struct_unpack([order |-> "@", items |-> << [count |-> 1, code |-> "i"] >>],
                           crcBytes)
    IN  IF r.error # "" THEN [error |-> r.error, value |-> << >>]
        ELSE [error |-> "", value |-> r.data[1]]

\* checkCRC comparing only the low 16 bits of the two checksums
checkCRC_Low16(hasCRC, rawTagArg, rawPayloadArg) ==
    IF ~hasCRC
    THEN [error |-> "", tuple |-> FALSE, items |-> << TRUE >>,
          out |-> << "old version - no CRC to check" >>]
    ELSE LET data == rawTagArg \o rawPayloadArg
             stripped == DropLastBytes(rawPayloadArg, 4)
             calculatedCRC == crc32c(DropLastBytes(data, 4))
             readCRC == ReadCRCFromData(data)
         IN  IF readCRC.error # ""
             THEN [error |-> readCRC.error, tuple |-> FALSE, items |-> << >>,
                   out |-> << "check CRC..." >>]
             ELSE [error |-> "", tuple |-> TRUE,
                   items |-> << readCRC.value[2] = calculatedCRC[2], stripped >>,
                   out |-> << "check CRC..." >>]

\* What checkCRC returns: `return True` gives a bare bool (tuple FALSE),
\* `return readCRC == calculatedCRC, rawPayload` a tuple of two items.
checkCRC(hasCRC, rawTagArg, rawPayloadArg) ==
    IF ~hasCRC
    THEN [error |-> "", tuple |-> FALSE, items |-> << TRUE >>,
          out |-> << "old version - no CRC to check" >>]
    ELSE LET data == rawTagArg \o rawPayloadArg
             stripped == DropLastBytes(rawPayloadArg, 4)
             calculatedCRC == crc32c(DropLastBytes(data, 4))
             readCRC == ReadCRCFromData(data)
         IN  IF readCRC.error # ""
             THEN [error |-> readCRC.error, tuple |-> FALSE, items |-> << >>,
                   out |-> << "check CRC..." >>]
             ELSE [error |-> "", tuple |-> TRUE,
                   items |-> << readCRC.value = calculatedCRC, stripped >>,
                   out |-> << "check CRC..." >>]

\* interpretePayloadData sending char data with the complex or the matrix bit
\* to the numeric decoder
interpretePayloadData_ScalarCharOnly(payloadArg, tagArg) ==
    IF isCharType(tagArg) /\ isMatrix(tagArg) = 0 /\ isComplex(tagArg) = 0
    THEN interpreteString(payloadArg)
    ELSE interpreteNumbers(payloadArg, isMatrix(tagArg), isComplex(tagArg))

interpretePayloadData(payloadArg, tagArg) ==
    IF isCharType(tagArg)
    THEN interpreteString(payloadArg)
    ELSE interpreteNumbers(payloadArg, isMatrix(tagArg), isComplex(tagArg))

(***************************************************************************)
(* State.  readBinaryFile's locals are << >> while unbound and <<value>>   *)
(* once assigned.                                                          *)
(***************************************************************************)

VARIABLES
    file,           \* the bytes of the file at `path`
    pos,            \* f's position: the number of bytes read so far
    version_info,   \* sys.version_info[0:2] of the interpreter
    pc,             \* the statement readBinaryFile is at
    err,            \* the exception that ended the call, "" if none
    header,         \* FileHeader
    rawTag,         \* bytes
    tag,            \* Tag
    rawPayload,     \* bytes
    crcIO,          \* bool
    payload,        \* the decoded payload
    sane,           \* the value of the last tag.isSane() call
    preds,          \* what the other Tag predicates returned when last called
    stdout,         \* what has been printed: the fixed part of each line
    f_obj,          \* the file object f of `with open(path) as f`
    buff,           \* the mmap object
    header1,        \* what FileHeader.from_buffer returned
    cls,            \* the structure class a byte string is decoded as
    source,         \* the byte string given to both decoders of cls
    packed,         \* what cls.create_from_bytes(source) returned
    mapped,         \* what cls.from_buffer(bytearray(source)) returned
    environ,        \* os.environ: variable name -> << value >>, << >> if unset
    result,         \* what the last call of a function of util/dask.py gave
    dask_client,    \* DaskHandler.dask_client: << >> is None, else << client >>
    clients,        \* the number of Client objects created in this process
    registered,     \* the clients handed to atexit.register, in order
    returned,       \* what each get_dask_client call that returned gave
    infoFile,       \* the file at DASK_INFO_ADDRESS
    dashboard,      \* whether karabo-dask-dashboard.txt exists
    node            \* the processes of the SLURM job, one per node

\* the locals of readBinaryFile's record steps
readerLocals == << pos, header, rawTag, tag, rawPayload, crcIO, payload, sane, preds >>

liveVars == << f_obj, buff, header1 >>

layoutVars == << cls, source, packed, mapped >>

handlerVars == << dask_client, clients, registered, returned >>

slurmVars == << infoFile, dashboard, node >>

daskVars == << environ, result, handlerVars, slurmVars >>

\* the variables the record steps of readBinaryFile do not touch
otherVars == << liveVars, layoutVars, daskVars >>

vars == << file, pos, version_info, pc, err, header, rawTag, tag, rawPayload,
           crcIO, payload, sane, preds, stdout, otherVars >>

ReaderIdle ==
    /\ pos = 0
    /\ header = << >>
    /\ rawTag = << >>
    /\ tag = << >>
    /\ rawPayload = << >>
    /\ crcIO = << >>
    /\ payload = << >>
    /\ sane = << >>
    /\ preds = << >>

LiveIdle == f_obj = "none" /\ buff = "none" /\ header1 = << >>

LayoutIdle == cls = << >> /\ source = << >> /\ packed = << >> /\ mapped = << >>

\* a file that does not exist
Absent == [exists |-> FALSE, content |-> << >>]

HandlerIdle ==
    /\ dask_client = << >>
    /\ clients = 0
    /\ registered = << >>
    /\ returned = << >>

SlurmIdle == infoFile = Absent /\ dashboard = FALSE /\ node = << >>

DaskIdle == environ = << >> /\ result = << >> /\ HandlerIdle /\ SlurmIdle

OthersIdle == LiveIdle /\ LayoutIdle /\ DaskIdle

(***************************************************************************)
(* Input files                                                             *)
(***************************************************************************)

\* longest payload data (without CRC trailer) of a generated record
MaxDataLen == 2

\* the format's 9-byte magic: "OSKARBIN" and a NUL
Signature == << 79, 83, 75, 65, 82, 66, 73, 78, 0 >>

Zeros(n) == [k \in 1..n |-> 0]

HeaderBlock(magic, ver, le, sizes, app, reserved) ==
    magic \o << ver, le >> \o sizes \o app \o reserved

\* the little-endian bytes of the 32-bit value with digits d
Bytes32(d) == << d[2] % 256, d[2] \div 256, d[1] % 256, d[1] \div 256 >>

TagBlock(elemSize, flags, dtype, size) ==
    << 84, 66, 71, elemSize, flags, dtype, 1, 2 >>
        \o << 3, 0, 0, 0 >>
        \o << size % 256, size \div 256, 0, 0, 0, 0, 0, 0 >>

\* a record: tag, data and as trailer nothing ("none"), the CRC-32C of tag
\* and data ("good") or that CRC with its last byte complemented ("bad")
RecordBlock(flags, dtype, data, trailer) ==
    LET size == Len(data) + (IF trailer = "none" THEN 0 ELSE 4)
        t == TagBlock(1, flags, dtype, size)
        crc == Bytes32(crc32c(t \o data))
    IN  t \o data \o
        (CASE trailer = "none" -> << >>
           [] trailer = "good" -> crc
           [] trailer = "bad" -> << crc[1], crc[2], crc[3], 255 - crc[4] >>)

RECURSIVE SeqsUpTo(_, _)
SeqsUpTo(S, n) ==
    IF n = 0 THEN { << >> }
    ELSE LET shorter == SeqsUpTo(S, n - 1)
         IN  shorter \cup { Append(s, e) : s \in shorter, e \in S }

\* headers that differ in every field, well-formed or not
RichHeaders ==
    { HeaderBlock(magic, ver, le, sizes, app, reserved) :
        magic \in { Signature, << 79, 83, 75, 65, 82, 66, 73, 78, 49 >> },
        ver \in { 1, 2 },
        le \in { 0, 1 },
        sizes \in { << 8, 4, 8, 4, 8 >>, << 4, 2, 4, 4, 16 >> },
        app \in { << 1, 0, 2, 0 >>, << 255, 254, 253, 128 >> },
        reserved \in { Zeros(44),
                       [k \in 1..44 |-> IF k = 1 THEN 7 ELSE 0],
                       [k \in 1..44 |-> IF k = 44 THEN 128 ELSE 0] } }

PlainHeaders ==
    { HeaderBlock(Signature, ver, 1, << 8, 4, 8, 4, 8 >>, << 1, 0, 2, 0 >>, Zeros(44)) :
        ver \in { 1, 2 } }

RichRecords ==
    { RecordBlock(flags, dtype, data, trailer) :
        flags \in { 0, 64 },
        dtype \in { 1, 4, 129 },
        data \in SeqsUpTo({ 97, 255 }, MaxDataLen),
        trailer \in { "none", "good", "bad" } }

PlainRecord == RecordBlock(64, 1, << 97, 98, 99, 100, 101 >>, "good")

\* records of numbers: int32, float32, complex float32 and float64 data,
\* little- and big-endian, of a whole number of elements and not
NumberRecords ==
    { RecordBlock(flags, dtype, data, "good") :
        flags \in { 64, 80 },
        dtype \in { 2, 4, 36, 8 },
        data \in { << 1, 0, 0, 0 >>,
                   << 1, 2, 3, 4, 5, 6, 7, 8 >>,
                   << 0, 0, 128, 63, 0, 0, 0, 64 >>,
                   << 1, 2, 3 >> } }

\* records of text: char data with and without the complex and matrix bits,
\* UTF-8 sequences of 2, 3 and 4 bytes, a cut sequence, a surrogate and an
\* overlong encoding
TextRecords ==
    { RecordBlock(64, dtype, data, "good") :
        dtype \in { 1, 33, 97 },
        data \in { << 195, 169 >>,
                   << 104, 226, 130, 172 >>,
                   << 240, 159, 146, 150 >>,
                   << 104, 195 >>,
                   << 237, 160, 128 >>,
                   << 192, 128 >> } }

SequenceRecords ==
    { RecordBlock(64, 1, << 97 >>, "good"),
      RecordBlock(64, 1, << 98, 99 >>, "good"),
      RecordBlock(64, 2, << 1, 0, 0, 0 >>, "good") }

\* files of no record, and of two and three records one after the other
SequenceFiles ==
    PlainHeaders
        \cup { h \o r1 \o r2 : h \in PlainHeaders, r1, r2 \in SequenceRecords }
        \cup { h \o r1 \o r2 \o r3 : h \in PlainHeaders, r1, r2, r3 \in SequenceRecords }

\* a record whose tag declares `declared` payload bytes where the file holds
\* only `data` and, with trailer "good", the CRC-32C of the tag and `data`
ShortRecord(flags, dtype, declared, data, trailer) ==
    LET t == TagBlock(1, flags, dtype, declared)
    IN  t \o data \o (IF trailer = "good" THEN Bytes32(crc32c(t \o data)) ELSE << >>)

\* files that end inside the payload of their record, or inside its tag
TruncatedFiles ==
    { h \o ShortRecord(64, dtype, 100, data, trailer) :
        h \in PlainHeaders,
        dtype \in { 1, 2 },
        data \in { << 97, 98, 99, 100, 101, 102 >>, << 98, 98, 99, 100, 101, 102 >>,
                   << 99, 98, 99, 100, 101, 102 >>, << 100, 98, 99, 100, 101, 102 >> },
        trailer \in { "none", "good" } }
        \cup { h \o SubSeq(PlainRecord, 1, n) : h \in PlainHeaders, n \in { 1, 19 } }

\* a record with a payload of 3 bytes: the tag's last byte and the payload are
\* the little-endian CRC-32C 0x753A2F00 of the first 19 bytes of the tag
ShortPayloadRecord ==
    << 84, 66, 71, 1, 64, 1, 1, 2, 95, 0, 0, 0, 3, 0, 0, 0, 0, 0, 0, 0 >>
        \o << 47, 58, 117 >>

Files ==
    { h \o PlainRecord : h \in RichHeaders }
        \cup { h \o r : h \in PlainHeaders, r \in RichRecords }
        \cup { h \o r : h \in PlainHeaders, r \in NumberRecords \cup TextRecords }
        \cup SequenceFiles
        \cup TruncatedFiles
        \cup { h \o ShortPayloadRecord : h \in PlainHeaders }

Interpreters == { << 3, 9 >>, << 3, 12 >> }

(***************************************************************************)
(* f.read(n): the next n bytes, fewer at the end of the file.              *)
(***************************************************************************)

\* an unsigned 64-bit field as the int f.read() is given; a value of 2^16
\* or more exceeds every file of the model
ReadCount(d) ==
    IF \A k \in 1..(Len(d) - 1) : d[k] = 0 THEN d[Len(d)] ELSE Len(file)

f_read(n) ==
    SubSeq(file, pos + 1, IF pos + n > Len(file) THEN Len(file) ELSE pos + n)

(***************************************************************************)
(* readBinaryFile: the header, then one record.  The steps are the         *)
(* statements of lines 192-209 of binary_reader.py, which the source       *)
(* carries behind comment markers next to the mmap experiment of lines     *)
(* 189-195; they are the only caller of checkCRC, printPayloadDataType and *)
(* interpretePayloadData the repository has.  An exception ends the call   *)
(* (pc = "raised"); the asserts are those of an interpreter run without -O.*)
(***************************************************************************)

Init ==
    /\ file \in Files
    /\ version_info \in Interpreters
    /\ pos = 0
    /\ pc = "header"
    /\ err = ""
    /\ header = << >>
    /\ rawTag = << >>
    /\ tag = << >>
    /\ rawPayload = << >>
    /\ crcIO = << >>
    /\ payload = << >>
    /\ sane = << >>
    /\ preds = << >>
    /\ OthersIdle
    /\ stdout = << "open as oskar binary file" >>

\* an exception that is recorded and swallowed: the statement that raised it
\* is executed again
Raise_AndRetry(e) == pc' = pc /\ err' = e

Raise(e) == pc' = "raised" /\ err' = e

\* data = f.read(HEADER_SIZE); header = FileHeader.create_from_bytes(data)
ReadHeader ==
    /\ pc = "header"
    /\ LET data == f_read(HEADER_SIZE)
           r == create_from_bytes(FileHeader, data)
       IN  /\ pos' = pos + Len(data)
           /\ stdout' = Append(stdout, "Unpack FileHeader")
           /\ IF r.error # ""
              THEN Raise(r.error) /\ UNCHANGED header
              ELSE header' = << r.obj >> /\ pc' = "tag" /\ UNCHANGED err
    /\ UNCHANGED << otherVars, preds, file, version_info, rawTag, tag, rawPayload, crcIO, payload, sane >>

\* rawTag = f.read(TAG_SIZE); tag = Tag.create_from_bytes(rawTag);
\* rawPayload = f.read(tag.payloadSize)
ReadTag ==
    /\ pc = "tag"
    /\ LET bytes == f_read(TAG_SIZE)
           r == create_from_bytes(Tag, bytes)
       IN  /\ rawTag' = << bytes >>
           /\ stdout' = Append(stdout, "Unpack Tag")
           /\ IF r.error # ""
              THEN /\ Raise(r.error)
                   /\ pos' = pos + Len(bytes)
                   /\ UNCHANGED << tag, rawPayload >>
              ELSE LET n == ReadCount(r.obj.payloadSize)
                       avail == Len(file) - (pos + Len(bytes))
                       got == IF n > avail THEN avail ELSE n
                   IN  /\ tag' = << r.obj >>
                       /\ rawPayload' =
                            << SubSeq(file, pos + Len(bytes) + 1, pos + Len(bytes) + got) >>
                       /\ pos' = pos + Len(bytes) + got
                       /\ pc' = "crc"
                       /\ UNCHANGED err
    /\ UNCHANGED << otherVars, preds, file, version_info, header, crcIO, payload, sane >>

\* crcIO, rawPayload = OskarBinaryReader.checkCRC(header.ver >= 2, rawTag, rawPayload)
\* assert crcIO, "crc wrong"
CheckCRC ==
    /\ pc = "crc"
    /\ LET r == checkCRC(header[1].ver >= 2, rawTag[1], rawPayload[1])
       IN  /\ stdout' = stdout \o r.out
           /\ IF r.error # ""
              THEN Raise(r.error) /\ UNCHANGED << crcIO, rawPayload >>
              ELSE IF ~r.tuple
              THEN /\ Raise("TypeError: cannot unpack non-iterable bool object")
                   /\ UNCHANGED << crcIO, rawPayload >>
              ELSE /\ crcIO' = << r.items[1] >>
                   /\ rawPayload' = << r.items[2] >>
                   /\ IF r.items[1]
                      THEN pc' = "type" /\ UNCHANGED err
                      ELSE Raise("AssertionError: crc wrong")
    /\ UNCHANGED << otherVars, preds, file, pos, version_info, header, rawTag, tag, payload, sane >>

\* print(header.desc); print(tag.printPayloadDataType())
PrintType ==
    /\ pc = "type"
    /\ LET r == printPayloadDataType(version_info, tag[1])
       IN  /\ sane' = << isSane(version_info, tag[1]) >>
           /\ IF r.error # ""
              THEN Raise(r.error) /\ stdout' = Append(stdout, "header.desc")
              ELSE /\ pc' = "payload"
                   /\ stdout' = stdout \o << "header.desc" >> \o r.value
                   /\ UNCHANGED err
    /\ UNCHANGED << otherVars, preds, file, pos, version_info, header, rawTag, tag, rawPayload, crcIO,
                    payload >>

\* payload = self.interpretePayloadData(rawPayload, tag); print(payload)
InterpretePayload ==
    /\ pc = "payload"
    /\ LET r == interpretePayloadData(rawPayload[1], tag[1])
       IN  IF r.error # ""
           THEN Raise(r.error) /\ UNCHANGED << payload, stdout >>
           ELSE /\ payload' = << r.value >>
                /\ stdout' = Append(stdout, "payload")
                /\ pc' = "done"
                /\ UNCHANGED err
    /\ UNCHANGED << otherVars, preds, file, pos, version_info, header, rawTag, tag, rawPayload, crcIO, sane >>

Next ==
    \/ ReadHeader
    \/ ReadTag
    \/ CheckCRC
    \/ PrintType
    \/ InterpretePayload

Spec == Init /\ [][Next]_vars

(***************************************************************************)
(* Tag.isSane() on every payloadDataType byte                              *)
(***************************************************************************)

InitSane ==
    /\ file = << >>
    /\ version_info \in Interpreters
    /\ pos = 0
    /\ pc = "isSane"
    /\ err = ""
    /\ header = << >>
    /\ rawTag = << >>
    /\ \E b \in 0..255 : tag = << create_from_bytes(Tag, TagBlock(1, 0, b, 0)).obj >>
    /\ rawPayload = << >>
    /\ crcIO = << >>
    /\ payload = << >>
    /\ sane = << >>
    /\ preds = << >>
    /\ OthersIdle
    /\ stdout = << >>

CallIsSane ==
    /\ pc = "isSane"
    /\ sane' = << isSane(version_info, tag[1]) >>
    /\ pc' = "done"
    /\ UNCHANGED << otherVars, preds, file, pos, version_info, err, header, rawTag, tag, rawPayload,
                    crcIO, payload, stdout >>

NextSane == CallIsSane

SpecSane == InitSane /\ [][NextSane]_vars

(***************************************************************************)
(* Tag.create_from_bytes, the Tag predicates and printPayloadDataType on   *)
(* tag blocks of every content                                             *)
(***************************************************************************)

\* 20-byte blocks that differ in every field
TagFieldBlocks ==
    { markers \o << elemSize, flags, dtype, group, id >> \o user \o size :
        markers \in { << 84, 66, 71 >>, << 0, 255, 10 >> },
        elemSize \in { 0, 255 },
        flags \in { 0, 208 },
        dtype \in { 1, 255 },
        group \in { 0, 200 },
        id \in { 0, 77 },
        user \in { << 3, 0, 0, 0 >>, << 1, 2, 3, 255 >> },
        size \in { << 9, 0, 0, 0, 0, 0, 0, 0 >>, << 1, 2, 3, 4, 5, 6, 7, 200 >> } }

\* what f.read(TAG_SIZE) can return and what a caller can pass: blocks of 20
\* bytes, every chunkFlags byte, every payloadDataType byte, and byte strings
\* that are shorter or longer than a tag
TagInputs ==
    TagFieldBlocks
        \cup { TagBlock(1, b, 1, 0) : b \in 0..255 }
        \cup { TagBlock(1, 0, b, 0) : b \in 0..255 }
        \cup { SubSeq(TagBlock(1, 64, 1, 9), 1, n) : n \in { 0, 1, 19 } }
        \cup { TagBlock(1, 64, 1, 9) \o << 0 >> }

InitTag ==
    /\ file = << >>
    /\ version_info \in Interpreters
    /\ pos = 0
    /\ pc = "parseTag"
    /\ err = ""
    /\ header = << >>
    /\ \E b \in TagInputs : rawTag = << b >>
    /\ tag = << >>
    /\ rawPayload = << >>
    /\ crcIO = << >>
    /\ payload = << >>
    /\ sane = << >>
    /\ preds = << >>
    /\ OthersIdle
    /\ stdout = << >>

\* tag = Tag.create_from_bytes(rawTag)
ParseTag ==
    /\ pc = "parseTag"
    /\ LET r == create_from_bytes(Tag, rawTag[1])
       IN  /\ stdout' = Append(stdout, "Unpack Tag")
           /\ IF r.error # ""
              THEN Raise(r.error) /\ UNCHANGED tag
              ELSE tag' = << r.obj >> /\ pc' = "predicates" /\ UNCHANGED err
    /\ UNCHANGED << otherVars, file, pos, version_info, header, rawTag, rawPayload, crcIO,
                    payload, sane, preds >>

\* each predicate of Tag called on the tag
CallPredicates ==
    /\ pc = "predicates"
    /\ preds' = << [isPayloadBigEndian |-> isPayloadBigEndian(tag[1]),
                    usesCRC32CEncoding |-> usesCRC32CEncoding(tag[1]),
                    isTagExtended |-> isTagExtended(tag[1]),
                    isCharType |-> isCharType(tag[1]),
                    isIntType |-> isIntType(tag[1]),
                    isFloatType |-> isFloatType(tag[1]),
                    isDoubleType |-> isDoubleType(tag[1]),
                    isMatrix |-> isMatrix(tag[1]),
                    isComplex |-> isComplex(tag[1])] >>
    /\ sane' = << isSane(version_info, tag[1]) >>
    /\ pc' = "describe"
    /\ UNCHANGED << otherVars, file, pos, version_info, err, header, rawTag, tag, rawPayload,
                    crcIO, payload, stdout >>

\* print(tag.printPayloadDataType())
DescribeType ==
    /\ pc = "describe"
    /\ LET r == printPayloadDataType(version_info, tag[1])
       IN  IF r.error # ""
           THEN Raise(r.error) /\ UNCHANGED stdout
           ELSE /\ stdout' = stdout \o r.value
                /\ pc' = "done"
                /\ UNCHANGED err
    /\ UNCHANGED << otherVars, file, pos, version_info, header, rawTag, tag, rawPayload, crcIO,
                    payload, sane, preds >>

NextTag ==
    \/ ParseTag
    \/ CallPredicates
    \/ DescribeType

SpecTag == InitTag /\ [][NextTag]_vars

(***************************************************************************)
(* readBinaryFile as the source runs it: lines 184-195.  The file is       *)
(* opened and mapped, the with block closes the file, and the header is    *)
(* taken from a slice of the map.                                          *)
(***************************************************************************)

LiveFiles == Files \cup { << >>, << 79 >> }

InitLive ==
    /\ file \in LiveFiles
    /\ version_info = << 3, 12 >>
    /\ pc = "open"
    /\ err = ""
    /\ ReaderIdle
    /\ LiveIdle
    /\ LayoutIdle
    /\ DaskIdle
    /\ stdout = << "open as oskar binary file" >>

\* with open(path, mode="r+b") as f:
OpenFile ==
    /\ pc = "open"
    /\ f_obj' = "open"
    /\ pc' = "mmap"
    /\ UNCHANGED << daskVars, file, version_info, err, readerLocals, stdout, buff, header1,
                    layoutVars >>

\* buff = mmap.mmap(f.fileno(), 0, access=mmap.ACCESS_WRITE), and the end of
\* the with block, which closes f also when mmap raises
MapFile ==
    /\ pc = "mmap"
    /\ f_obj' = "closed"
    /\ IF Len(file) = 0
       THEN Raise("ValueError: cannot mmap an empty file") /\ UNCHANGED buff
       ELSE buff' = "open" /\ pc' = "from_buffer" /\ UNCHANGED err
    /\ UNCHANGED << daskVars, file, version_info, readerLocals, stdout, header1, layoutVars >>

\* header1 = FileHeader.from_buffer(buff[0:OskarBinaryReader.HEADER_SIZE]):
\* the slice of a mmap is a bytes object
FromBuffer ==
    /\ pc = "from_buffer"
    /\ LET slice == SubSeq(file, 1, IF Len(file) < HEADER_SIZE THEN Len(file)
                                    ELSE HEADER_SIZE)
           r == from_buffer(FileHeader, [bytes |-> slice, readonly |-> TRUE])
       IN  IF r.error # ""
           THEN Raise(r.error) /\ UNCHANGED header1
           ELSE header1' = << r.obj >> /\ pc' = "done" /\ UNCHANGED err
    /\ UNCHANGED << daskVars, file, version_info, readerLocals, stdout, f_obj, buff, layoutVars >>

\* the map is closed by nothing in readBinaryFile: it stays open until the
\* interpreter frees the mmap object, which happens when the frame of the
\* call and the traceback that holds it are gone
Collect ==
    /\ pc \in { "raised", "done" }
    /\ buff = "open"
    /\ buff' = "closed"
    /\ UNCHANGED << daskVars, file, version_info, pc, err, readerLocals, stdout, f_obj, header1,
                    layoutVars >>

NextLive ==
    \/ OpenFile
    \/ MapFile
    \/ FromBuffer
    \/ Collect

SpecLive == InitLive /\ [][NextLive]_vars

(***************************************************************************)
(* The two decoders of a structure class on the same bytes:                *)
(* create_from_bytes (struct.unpack with the packed format) and            *)
(* from_buffer (the ctypes layout) on a writable copy.                     *)
(***************************************************************************)

LayoutInputs ==
    { << FileHeader, h \o pad >> :
        h \in RichHeaders, pad \in { << >>, << 1, 2, 3, 4, 5, 6, 7, 8 >> } }
        \cup { << Tag, t \o pad >> :
                t \in TagFieldBlocks, pad \in { << >>, << 9, 10, 11, 12 >> } }

InitLayout ==
    /\ file = << >>
    /\ version_info = << 3, 12 >>
    /\ pc = "decode"
    /\ err = ""
    /\ ReaderIdle
    /\ LiveIdle
    /\ DaskIdle
    /\ \E in \in LayoutInputs : cls = << in[1] >> /\ source = in[2]
    /\ packed = << >>
    /\ mapped = << >>
    /\ stdout = << >>

\* cls.create_from_bytes(source)
CallCreateFromBytes ==
    /\ pc = "decode"
    /\ packed = << >>
    /\ packed' = << create_from_bytes(cls[1], source) >>
    /\ UNCHANGED << daskVars, file, version_info, pc, err, readerLocals, stdout, liveVars, cls,
                    source, mapped >>

\* cls.from_buffer(bytearray(source))
CallFromBuffer ==
    /\ pc = "decode"
    /\ mapped = << >>
    /\ mapped' = << from_buffer(cls[1], [bytes |-> source, readonly |-> FALSE]) >>
    /\ UNCHANGED << daskVars, file, version_info, pc, err, readerLocals, stdout, liveVars, cls,
                    source, packed >>

NextLayout ==
    \/ CallCreateFromBytes
    \/ CallFromBuffer

SpecLayout == InitLayout /\ [][NextLayout]_vars

(***************************************************************************)
(* util/dask.py: the functions that read the SLURM environment.  A str is  *)
(* the sequence of its characters; a function gives [error, value].        *)
(***************************************************************************)

Digits == << "0", "1", "2", "3", "4", "5", "6", "7", "8", "9" >>

IsDigit(c) == \E d \in 1..10 : Digits[d] = c

DigitValue(c) == (CHOOSE d \in 1..10 : Digits[d] = c) - 1

RECURSIVE DecimalValue(_, _)
DecimalValue(s, n) ==
    IF n = 0 THEN 0 ELSE DecimalValue(s, n - 1) * 10 + DigitValue(s[n])

\* int(s) of a str: the decimal value, ValueError when s is not a numeral
py_int(s) ==
    IF s # << >> /\ \A k \in 1..Len(s) : IsDigit(s[k])
    THEN [error |-> "", value |-> DecimalValue(s, Len(s))]
    ELSE [error |-> "ValueError", value |-> 0]

\* str(n) of an int n >= 0
RECURSIVE py_str(_)
py_str(n) ==
    IF n < 10 THEN << Digits[n + 1] >>
    ELSE Append(py_str(n \div 10), Digits[(n % 10) + 1])

\* s.split(sep) for a separator of one character
RECURSIVE split(_, _)
split(s, sep) ==
    IF \A k \in 1..Len(s) : s[k] # sep THEN << s >>
    ELSE LET i == CHOOSE k \in 1..Len(s) :
                    s[k] = sep /\ \A j \in 1..(k - 1) : s[j] # sep
         IN  << SubSeq(s, 1, i - 1) >> \o split(SubSeq(s, i + 1, Len(s)), sep)

\* the depth of nested calls at which the interpreter raises RecursionError
\* (sys.getrecursionlimit() is 1000 by default; no call chain of dask.py that
\* returns is deeper than 5)
RecursionLimit == 12

check_env_var(env, var) ==
    IF env[var] = << >>
    THEN [error |-> "KaraboDaskError", value |-> << >>]
    ELSE [error |-> "", value |-> env[var][1]]

\* int(n_nodes), n_nodes being what check_env_var gave
NumberOfNodes(n_nodes) ==
    IF n_nodes.error # "" THEN [error |-> n_nodes.error, value |-> 0]
    ELSE py_int(n_nodes.value)

get_number_of_nodes(env) == NumberOfNodes(check_env_var(env, "SLURM_JOB_NUM_NODES"))

is_on_slurm_cluster(env) == env["SLURM_JOB_ID"] # << >>

\* lines 245-251: the two numbers of node_list
MinMaxOfParts(parts, lo, hi) ==
    IF lo.error # "" THEN [error |-> lo.error, value |-> << >>]
    ELSE IF Len(parts) < 2 THEN [error |-> "IndexError", value |-> << >>]
    ELSE IF hi.error # "" THEN [error |-> hi.error, value |-> << >>]
    ELSE [error |-> "", value |-> << lo.value, hi.value >>]

MinMaxOfSplit(parts) == MinMaxOfParts(parts, py_int(parts[1]), py_int(parts[2]))

MinMaxOfList(node_list) ==
    MinMaxOfSplit(IF \E k \in 1..Len(node_list) : node_list[k] = ","
                  THEN split(node_list, ",")
                  ELSE split(node_list, "-"))

\* line 243: opened is slurm_job_nodelist.split("[")
MinMaxOfOpened(opened) ==
    IF Len(opened) < 2 THEN [error |-> "IndexError", value |-> << >>]
    ELSE MinMaxOfList(split(opened[2], "]")[1])

MinMaxOfNodelist(slurm_job_nodelist) ==
    IF slurm_job_nodelist.error # ""
    THEN [error |-> slurm_job_nodelist.error, value |-> << >>]
    ELSE MinMaxOfOpened(split(slurm_job_nodelist.value, "["))

get_min_max_of_node_id(env) ==
    MinMaxOfNodelist(check_env_var(env, "SLURM_JOB_NODELIST"))

\* get_min_max_of_node_id()[0]
LowestOf(mm) ==
    IF mm.error # "" THEN [error |-> mm.error, value |-> 0]
    ELSE [error |-> "", value |-> mm.value[1]]

\* slurmd_nodename[-len_id:]
Suffix(name, len_id) ==
    IF len_id >= Len(name) THEN name
    ELSE SubSeq(name, Len(name) - len_id + 1, Len(name))

\* lines 279-280, lowest being what get_lowest_node_id() gave
NodeIdOf(slurmd_nodename, lowest) ==
    IF lowest.error # "" THEN lowest
    ELSE py_int(Suffix(slurmd_nodename, Len(py_str(lowest.value))))

RECURSIVE get_lowest_node_id(_, _)
RECURSIVE get_node_id(_, _)
RECURSIVE LowestNodeIdFor(_, _, _)
RECURSIVE NodeIdFor(_, _, _)

\* lines 255-258, n being what get_number_of_nodes() gave
LowestNodeIdFor(env, depth, n) ==
    IF n.error # "" THEN n
    ELSE IF n.value = 1 THEN get_node_id(env, depth + 1)
    ELSE LowestOf(get_min_max_of_node_id(env))

\* depth is the number of frames of these two functions on the stack
get_lowest_node_id(env, depth) ==
    IF depth > RecursionLimit THEN [error |-> "RecursionError", value |-> 0]
    ELSE LowestNodeIdFor(env, depth, get_number_of_nodes(env))

\* lines 279-280, slurmd_nodename being what check_env_var gave
NodeIdFor(env, depth, slurmd_nodename) ==
    IF slurmd_nodename.error # ""
    THEN [error |-> slurmd_nodename.error, value |-> 0]
    ELSE NodeIdOf(slurmd_nodename.value, get_lowest_node_id(env, depth + 1))

get_node_id(env, depth) ==
    IF depth > RecursionLimit THEN [error |-> "RecursionError", value |-> 0]
    ELSE NodeIdFor(env, depth, check_env_var(env, "SLURMD_NODENAME"))

\* get_node_id() == get_lowest_node_id(), given what the two calls gave
SameNode(id, lowest) ==
    IF id.error # "" THEN [error |-> id.error, value |-> FALSE]
    ELSE IF lowest.error # "" THEN [error |-> lowest.error, value |-> FALSE]
    ELSE [error |-> "", value |-> id.value = lowest.value]

is_first_node(env) == SameNode(get_node_id(env, 1), get_lowest_node_id(env, 1))

(***************************************************************************)
(* The environments SLURM gives the processes of a job: the node list in   *)
(* SLURM's host-list syntax, the number of nodes and the node's own name.  *)
(***************************************************************************)

EnvNames ==
    { "SLURM_JOB_ID", "SLURM_JOB_NUM_NODES", "SLURM_JOB_NODELIST", "SLURMD_NODENAME" }

\* the decimal numeral of n, padded with zeros to width w
Pad(n, w) ==
    LET d == py_str(n)
    IN  IF Len(d) >= w THEN d ELSE [k \in 1..(w - Len(d)) |-> "0"] \o d

BaseNames == { << "n", "o", "d", "e" >>, << "n", "i", "d" >> }

\* a job on n consecutive nodes base<lo> .. base<lo+n-1>
RangeJob(base, lo, n, w) ==
    [nodelist |-> base \o << "[" >> \o Pad(lo, w) \o << "-" >>
                       \o Pad(lo + n - 1, w) \o << "]" >>,
     names    |-> [k \in 1..n |-> base \o Pad(lo + k - 1, w)]]

RangeJobs ==
    { RangeJob(base, lo, n, w) :
        base \in BaseNames, lo \in { 1, 8, 98 }, n \in { 2, 3 }, w \in { 0, 3 } }

\* a job on one node: the node list is the node's name
SingleNodeJobs ==
    { [nodelist |-> name, names |-> << name >>] :
        name \in { << "n", "o", "d", "e", "5" >>,
                   << "n", "i", "d", "0", "1", "2" >> } }

\* jobs on nodes that are not consecutive: node[07,09] and node[1-2,5]
ListJobs ==
    { [nodelist |-> << "n", "o", "d", "e", "[", "0", "7", ",", "0", "9", "]" >>,
       names    |-> << << "n", "o", "d", "e", "0", "7" >>,
                       << "n", "o", "d", "e", "0", "9" >> >>],
      [nodelist |-> << "n", "o", "d", "e", "[", "1", "-", "2", ",", "5", "]" >>,
       names    |-> << << "n", "o", "d", "e", "1" >>,
                       << "n", "o", "d", "e", "2" >>,
                       << "n", "o", "d", "e", "5" >> >>] }

Jobs == RangeJobs \cup SingleNodeJobs \cup ListJobs

\* os.environ of the process on the k-th node of a job
NodeEnv(job, k) ==
    [v \in EnvNames |->
        CASE v = "SLURM_JOB_ID"        -> << << "4", "7", "1", "1" >> >>
          [] v = "SLURM_JOB_NUM_NODES" -> << py_str(Len(job.names)) >>
          [] v = "SLURM_JOB_NODELIST"  -> << job.nodelist >>
          [] v = "SLURMD_NODENAME"     -> << job.names[k] >>]

SlurmEnvs == UNION { { NodeEnv(job, k) : k \in 1..Len(job.names) } : job \in Jobs }

\* os.environ of a process that SLURM did not start
NoSlurmEnv == [v \in EnvNames |-> << >>]

\* everything but the state of util/dask.py is untouched by its functions
ReaderUnused ==
    /\ file = << >>
    /\ version_info = << 3, 12 >>
    /\ err = ""
    /\ stdout = << >>
    /\ ReaderIdle
    /\ LiveIdle
    /\ LayoutIdle

readerVars == << file, version_info, stdout, readerLocals, liveVars, layoutVars >>

(***************************************************************************)
(* Calls of is_first_node, get_node_id and get_lowest_node_id in a process *)
(* of a SLURM job.                                                         *)
(***************************************************************************)

InitNode ==
    /\ environ \in SlurmEnvs
    /\ result = << >>
    /\ pc = "call"
    /\ HandlerIdle
    /\ SlurmIdle
    /\ ReaderUnused

Call(function, r) ==
    /\ pc = "call"
    /\ result' = << [function |-> function, error |-> r.error, value |-> r.value] >>
    /\ IF r.error # "" THEN Raise(r.error) ELSE pc' = "done" /\ UNCHANGED err
    /\ UNCHANGED << environ, handlerVars, slurmVars, readerVars >>

CallIsFirstNode == Call("is_first_node", is_first_node(environ))

CallGetNodeId == Call("get_node_id", get_node_id(environ, 1))

CallGetLowestNodeId == Call("get_lowest_node_id", get_lowest_node_id(environ, 1))

NextNode ==
    \/ CallIsFirstNode
    \/ CallGetNodeId
    \/ CallGetLowestNodeId

SpecNode == InitNode /\ [][NextNode]_vars

(***************************************************************************)
(* DaskHandler.get_dask_client, called any number of times in one process. *)
(* A Client is named by the order of its creation: 1, 2, ...               *)
(***************************************************************************)

\* the number of get_dask_client calls followed
MaxCalls == 3

\* the host the process runs on: available RAM by psutil's figure, CPUs
HostRam == 16000
HostCpus == 4

\* min_ram_gb_per_worker is << >> for None
calculate_number_of_workers_per_node(min_ram_gb_per_worker) ==
    IF min_ram_gb_per_worker = << >> THEN 1
    ELSE LET min == min_ram_gb_per_worker[1]
             n == IF HostRam < min THEN 1 ELSE HostRam \div min
         IN  IF n > HostCpus THEN HostCpus ELSE n

\* the class attributes that get_dask_client passes on, never assigned
n_workers_scheduler_node == 1
min_gb_ram_per_worker == << >>

\* slurm_job_nodelist.split("[")[0]
BaseOf(slurm_job_nodelist) ==
    IF slurm_job_nodelist.error # "" THEN slurm_job_nodelist
    ELSE [error |-> "", value |-> split(slurm_job_nodelist.value, "[")[1]]

get_base_string_node_list(env) == BaseOf(check_env_var(env, "SLURM_JOB_NODELIST"))

\* base + str(lowest)
NameOf(base, lowest) ==
    IF base.error # "" THEN base
    ELSE IF lowest.error # "" THEN [error |-> lowest.error, value |-> << >>]
    ELSE [error |-> "", value |-> base.value \o py_str(lowest.value)]

get_lowest_node_name(env) ==
    NameOf(get_base_string_node_list(env), get_lowest_node_id(env, 1))

\* what json.dump(dask_info, f) leaves in the file once f is closed
WrittenInfo(client) ==
    [exists  |-> TRUE,
     content |-> << [scheduler_address  |-> client,
                     n_workers_per_node |->
                        calculate_number_of_workers_per_node(min_gb_ram_per_worker)] >>]

\* lines 180-184 and 235, given what is_first_node() and
\* get_lowest_node_name() gave
RejectedBy(first, name) ==
    IF first.error # "" THEN first.error
    ELSE IF ~first.value THEN "KaraboDaskError"
    ELSE name.error

\* The exception that setup_dask_for_slurm raises before it creates the
\* cluster, "" if none.
SetupRejects(env) == RejectedBy(is_first_node(env), get_lowest_node_name(env))

\* line 58, n being what get_number_of_nodes() gave
RejectsFor(env, n) ==
    IF n.error # "" THEN n.error
    ELSE IF n.value > 1 THEN SetupRejects(env)
    ELSE ""

\* The exception that ends get_dask_client before any client is created.
CallRejects(env) ==
    IF ~is_on_slurm_cluster(env) THEN "" ELSE RejectsFor(env, get_number_of_nodes(env))

UsesSlurm(env) == is_on_slurm_cluster(env) /\ get_number_of_nodes(env).value > 1

DaskEnvs == SlurmEnvs \cup { NoSlurmEnv }

InitDask ==
    /\ environ \in DaskEnvs
    /\ result = << >>
    /\ pc = "run"
    /\ HandlerIdle
    /\ SlurmIdle
    /\ ReaderUnused

\* the call finds DaskHandler.dask_client set: lines 57, 68, 69
ReturnStored ==
    /\ dask_client # << >>
    /\ registered' = Append(registered, dask_client[1])
    /\ returned' = Append(returned, [error |-> "", value |-> dask_client[1]])
    /\ err' = ""
    /\ UNCHANGED << dask_client, clients, infoFile, dashboard >>

\* the call ends with the exception e before it has created anything
RaiseEarly(e) ==
    /\ dask_client = << >>
    /\ e # ""
    /\ returned' = Append(returned, [error |-> e, value |-> 0])
    /\ err' = e
    /\ UNCHANGED << dask_client, clients, registered, infoFile, dashboard >>

\* get_local_dask_client: lines 64-66, 85-91, then 68, 69
CreateLocal(e, slurm) ==
    /\ dask_client = << >>
    /\ e = ""
    /\ ~slurm
    /\ clients' = clients + 1
    /\ dask_client' = << clients + 1 >>
    /\ registered' = Append(registered, clients + 1)
    /\ returned' = Append(returned, [error |-> "", value |-> clients + 1])
    /\ err' = ""
    /\ UNCHANGED << infoFile, dashboard >>

\* setup_dask_for_slurm on the first node.  Whether the workers of the other
\* nodes connect within DaskHandler.TIMEOUT is not in this process's hands.
CreateForSlurm(e, slurm, connected) ==
    /\ dask_client = << >>
    /\ e = ""
    /\ slurm
    /\ clients' = clients + 1
    /\ IF connected
       THEN /\ dashboard' = TRUE
            /\ infoFile' = Absent
            /\ dask_client' = << clients + 1 >>
            /\ registered' = registered \o << clients + 1, clients + 1 >>
            /\ returned' = Append(returned, [error |-> "", value |-> clients + 1])
            /\ err' = ""
       ELSE /\ infoFile' = WrittenInfo(clients + 1)
            /\ returned' = Append(returned, [error |-> "KaraboDaskError", value |-> 0])
            /\ err' = "KaraboDaskError"
            /\ UNCHANGED << dask_client, registered, dashboard >>

\* e is the exception raised before a client is created ("" if none), slurm
\* is the value of the condition on line 58
GetDaskClient ==
    /\ pc = "run"
    /\ Len(returned) < MaxCalls
    /\ \E e \in { CallRejects(environ) }, slurm \in { UsesSlurm(environ) } :
        \/ ReturnStored
        \/ RaiseEarly(e)
        \/ CreateLocal(e, slurm)
        \/ \E connected \in BOOLEAN : CreateForSlurm(e, slurm, connected)
    /\ UNCHANGED << pc, environ, result, node, readerVars >>

\* the interpreter exits: the handlers given to atexit run dask_cleanup
Exit ==
    /\ pc = "run"
    /\ pc' = "exited"
    /\ IF registered # << >>
       THEN infoFile' = Absent /\ dashboard' = FALSE
       ELSE UNCHANGED << infoFile, dashboard >>
    /\ UNCHANGED << err, environ, result, handlerVars, node, readerVars >>

NextDask ==
    \/ GetDaskClient
    \/ Exit

SpecDask == InitDask /\ [][NextDask]_vars

(***************************************************************************)
(* A multi-node SLURM job: every node imports karabo and runs              *)
(* prepare_slurm_nodes_for_dask; the script of the first node then calls   *)
(* get_dask_client, which runs setup_dask_for_slurm.  The nodes share the  *)
(* file system and nothing else; each step below is one file operation or  *)
(* one sleep, and the steps of different nodes interleave freely.          *)
(***************************************************************************)

\* jobs in which every node finds out correctly whether it is the first
MultiNodeJobs == { RangeJob(base, 1, n, 0) : base \in BaseNames, n \in { 2, 3 } }

\* The info file a run leaves behind when its first node ends without the
\* removal on line 228 and without a registered dask_cleanup (the timeout
\* of line 214, a killed process): the address of a scheduler that is gone.
StaleInfo ==
    [exists  |-> TRUE,
     content |-> << [scheduler_address |-> 0, n_workers_per_node |-> 1] >>]

\* what open(DASK_INFO_ADDRESS, "w") leaves until json.dump and close
Truncated == [exists |-> TRUE, content |-> << >>]

\* os.environ of the process on node k
EnvOf(k) == [environ EXCEPT !["SLURMD_NODENAME"] = << node[k].name >>]

\* what no step of the job touches
jobFrame == << pc, err, environ, result, readerVars >>

At(k, label) == node[k].pc = label

Goto(k, label) == node' = [node EXCEPT ![k].pc = label]

InitSlurm ==
    /\ \E job \in MultiNodeJobs :
        /\ environ = NodeEnv(job, 1)
        /\ node = [k \in 1..Len(job.names) |->
                    [name |-> job.names[k], pc |-> "prepare", error |-> "",
                     dask_info |-> << >>, worker |-> << >>]]
    /\ infoFile \in { Absent, StaleInfo }
    /\ dashboard = FALSE
    /\ result = << >>
    /\ pc = "job"
    /\ HandlerIdle
    /\ ReaderUnused

\* prepare_slurm_nodes_for_dask up to line 122: the first node removes an
\* old info file and returns to its script, the others go on to line 124
Prepare(k) ==
    /\ At(k, "prepare")
    /\ \E first \in { is_first_node(EnvOf(k)) } :
        IF first.error # ""
        THEN /\ node' = [node EXCEPT ![k].pc = "raised", ![k].error = first.error]
             /\ UNCHANGED infoFile
        ELSE IF first.value
        THEN Goto(k, "script") /\ infoFile' = Absent
        ELSE Goto(k, "sleep") /\ UNCHANGED infoFile
    /\ UNCHANGED << dashboard, handlerVars >>
    /\ UNCHANGED jobFrame

\* line 124: time.sleep(10) returns
Sleep(k) ==
    /\ At(k, "sleep")
    /\ Goto(k, "poll")
    /\ UNCHANGED << infoFile, dashboard, handlerVars >>
    /\ UNCHANGED jobFrame

\* lines 127-128: the loop ends once the file exists
Poll(k) ==
    /\ At(k, "poll")
    /\ infoFile.exists
    /\ Goto(k, "load")
    /\ UNCHANGED << infoFile, dashboard, handlerVars >>
    /\ UNCHANGED jobFrame

\* lines 131-132: open(DASK_INFO_ADDRESS, "r") and json.load
Load(k) ==
    /\ At(k, "load")
    /\ node' = [node EXCEPT
                  ![k].pc = IF infoFile.content = << >> THEN "raised" ELSE "popen",
                  ![k].error = IF ~infoFile.exists THEN "FileNotFoundError"
                               ELSE IF infoFile.content = << >> THEN "JSONDecodeError"
                               ELSE "",
                  ![k].dask_info = infoFile.content]
    /\ UNCHANGED << infoFile, dashboard, handlerVars >>
    /\ UNCHANGED jobFrame

\* lines 134-146: Popen of `dask worker <scheduler_address>`, then the
\* endless loop
StartWorker(k) ==
    /\ At(k, "popen")
    /\ node' = [node EXCEPT ![k].pc = "serve",
                            ![k].worker = << node[k].dask_info[1].scheduler_address >>]
    /\ UNCHANGED << infoFile, dashboard, handlerVars >>
    /\ UNCHANGED jobFrame

\* the first node's script calls get_dask_client: lines 57-62, 180-185
CreateCluster(k) ==
    /\ At(k, "script")
    /\ \E e \in { SetupRejects(EnvOf(k)) } :
        IF e # ""
        THEN /\ node' = [node EXCEPT ![k].pc = "raised", ![k].error = e]
             /\ returned' = Append(returned, [error |-> e, value |-> 0])
             /\ UNCHANGED clients
        ELSE /\ Goto(k, "open")
             /\ clients' = clients + 1
             /\ UNCHANGED returned
    /\ UNCHANGED << infoFile, dashboard, dask_client, registered >>
    /\ UNCHANGED jobFrame

\* line 197: open(DASK_INFO_ADDRESS, "w") creates or truncates the file
OpenInfo(k) ==
    /\ At(k, "open")
    /\ Goto(k, "dump")
    /\ infoFile' = Truncated
    /\ UNCHANGED << dashboard, handlerVars >>
    /\ UNCHANGED jobFrame

\* line 198 and the end of the with block: the text reaches the file
DumpInfo(k) ==
    /\ At(k, "dump")
    /\ Goto(k, "wait")
    /\ infoFile' = WrittenInfo(clients)
    /\ UNCHANGED << dashboard, handlerVars >>
    /\ UNCHANGED jobFrame

\* the workers that have connected to the scheduler of this run
Connected == { j \in 1..Len(node) : node[j].worker = << clients >> }

n_workers_requested ==
    (Len(node) - 1) * calculate_number_of_workers_per_node(min_gb_ram_per_worker)
        + n_workers_scheduler_node

\* lines 206-231, 68, 69: all workers are there
Finish(k) ==
    /\ At(k, "wait")
    /\ Cardinality(Connected) * calculate_number_of_workers_per_node(min_gb_ram_per_worker)
            + n_workers_scheduler_node = n_workers_requested
    /\ Goto(k, "returned")
    /\ dashboard' = TRUE
    /\ infoFile' = Absent
    /\ dask_client' = << clients >>
    /\ registered' = registered \o << clients, clients >>
    /\ returned' = Append(returned, [error |-> "", value |-> clients])
    /\ UNCHANGED clients
    /\ UNCHANGED jobFrame

\* lines 213-217: TIMEOUT seconds have passed and workers are missing
Timeout(k) ==
    /\ At(k, "wait")
    /\ Cardinality(Connected) * calculate_number_of_workers_per_node(min_gb_ram_per_worker)
            + n_workers_scheduler_node # n_workers_requested
    /\ node' = [node EXCEPT ![k].pc = "raised", ![k].error = "KaraboDaskError"]
    /\ returned' = Append(returned, [error |-> "KaraboDaskError", value |-> 0])
    /\ UNCHANGED << infoFile, dashboard, dask_client, clients, registered >>
    /\ UNCHANGED jobFrame

\* the first node's script ends: atexit runs dask_cleanup if registered
ExitFirst(k) ==
    /\ At(k, "returned") \/ (At(k, "raised") /\ node[k].error = "KaraboDaskError")
    /\ Goto(k, "exited")
    /\ IF registered # << >>
       THEN infoFile' = Absent /\ dashboard' = FALSE
       ELSE UNCHANGED << infoFile, dashboard >>
    /\ UNCHANGED handlerVars
    /\ UNCHANGED jobFrame

NextSlurm ==
    \/ \E k \in 1..Len(node) : Prepare(k)
    \/ \E k \in 1..Len(node) : Sleep(k)
    \/ \E k \in 1..Len(node) : Poll(k)
    \/ \E k \in 1..Len(node) : Load(k)
    \/ \E k \in 1..Len(node) : StartWorker(k)
    \/ \E k \in 1..Len(node) : CreateCluster(k)
    \/ \E k \in 1..Len(node) : OpenInfo(k)
    \/ \E k \in 1..Len(node) : DumpInfo(k)
    \/ \E k \in 1..Len(node) : Finish(k)
    \/ \E k \in 1..Len(node) : Timeout(k)
    \/ \E k \in 1..Len(node) : ExitFirst(k)

SpecSlurm == InitSlurm /\ [][NextSlurm]_vars

(***************************************************************************)
(* Properties                                                              *)
(***************************************************************************)

Printed(line) == \E k \in 1..Len(stdout) : stdout[k] = line

\* the payloadSize of the tag at offset off of the file
DeclaredSize(off) ==
    ReadCount(UnsignedLE(SubSeq(file, off + 13, off + TAG_SIZE)))

\* the first record of the file as it was written: its tag, and the bytes the
\* file holds of the payload the tag declares
FileTag == SubSeq(file, HEADER_SIZE + 1, HEADER_SIZE + TAG_SIZE)
FilePayload ==
    IF Len(file) < HEADER_SIZE + TAG_SIZE THEN << >>
    ELSE LET end == HEADER_SIZE + TAG_SIZE + DeclaredSize(HEADER_SIZE)
         IN  SubSeq(file, HEADER_SIZE + TAG_SIZE + 1,
                    IF end > Len(file) THEN Len(file) ELSE end)

\* the statement checkCRC(...); assert crcIO has been executed
CheckCRCDone == tag # << >> /\ pc # "crc"

\* checkCRC took its hasCRC path
CRCApplies == CheckCRCDone /\ Printed("check CRC...")

TagHasCRCFlag == tag # << >> /\ (tag[1].chunkFlags \div 64) % 2 = 1

\* the last 4 payload bytes are the little-endian uint32 CRC-32C of the tag
\* and the payload before them
StoredCRCMatches ==
    /\ Len(FilePayload) >= 4
    /\ LET s == LastBytes(FilePayload, 4)
       IN  << s[4] * 256 + s[3], s[2] * 256 + s[1] >>
             = crc32c(FileTag \o DropLastBytes(FilePayload, 4))

StoredCRCDiffers == Len(FilePayload) >= 4 /\ ~StoredCRCMatches

\* C1: when the checksum applies and the stored 4 bytes are the little-endian
\* uint32 encoding of CRC32C(tag + payload), verification succeeds, for every
\* checksum value, those of 2^31 and above included.
C1_MatchingChecksumVerifies ==
    (CRCApplies /\ TagHasCRCFlag /\ StoredCRCMatches) =>
        crcIO = << TRUE >> /\ err # "AssertionError: crc wrong"

C3_CheckRunsIffTagFlag ==
    CheckCRCDone =>
        (Printed("check CRC...") <=> TagHasCRCFlag)

\* C4: with version < 2 the check is a no-op that always succeeds, and the
\* payload is passed on unchanged.
C4_LegacyVersionPasses ==
    (CheckCRCDone /\ header[1].ver < 2) =>
        /\ err = ""
        /\ rawPayload = << FilePayload >>

\* the payload decoder has been called: it returned or raised
DecoderCalled == pc = "done" \/ err = "UnicodeDecodeError"

\* C5: the decoder receives the first payloadSize - 4 payload bytes when the
\* tag has the CRC flag and all payloadSize bytes when it has not.
C5_DecoderGetsPayloadWithoutCRC ==
    DecoderCalled =>
        rawPayload[1] = IF TagHasCRCFlag
                        THEN DropLastBytes(FilePayload, 4)
                        ELSE FilePayload

Bit(b, k) == (b \div (2 ^ k)) % 2

\* C6: is_sane(b) holds if and only if exactly one of bits 0-3 of b is set and
\* bits 4 and 7 of b are both 0, for every byte b.
C6_SaneIffOneBaseBit ==
    sane # << >> =>
        LET b == tag[1].payloadDataType
        IN  sane[1] <=>
                /\ Cardinality({ k \in 0..3 : Bit(b, k) = 1 }) = 1
                /\ Bit(b, 4) = 0
                /\ Bit(b, 7) = 0

C6_SaneDoubleComplexMatrix ==
    pc = "done" /\ sane = << TRUE >> /\ tag[1].payloadDataType = 104

\* C7: for every tag whose payloadDataType is not sane the type-descriptor
\* error is raised and the payload decoder is never invoked.
C7_InsaneTagRaisesTypeError ==
    (tag # << >> /\ ~isSane(version_info, tag[1]) /\ pc \in { "raised", "done" }) =>
        /\ err = "AssertionError: Typedescription bits that should be 0 are not"
        /\ payload = << >>

HeaderBytes == SubSeq(file, 1, HEADER_SIZE)

WellFormedHeader ==
    /\ Len(file) >= HEADER_SIZE
    /\ SubSeq(file, 1, 9) = Signature
    /\ \A k \in 21..64 : file[k] = 0

\* C8: a header whose magic is not the signature or whose reserved bytes are
\* not all zero is never accepted.
C8_MalformedHeaderRejected ==
    header # << >> => WellFormedHeader

\* the 64 bytes that hold the fields of a FileHeader h
EncodeHeader(h) ==
    LET le(d) == [k \in 1..(2 * Len(d)) |->
                    IF k % 2 = 1 THEN d[Len(d) - (k \div 2)] % 256
                    ELSE d[Len(d) + 1 - (k \div 2)] \div 256]
    IN  h.desc
        \o << h.ver, h.littleEndinan, h.voidptrSize, h.intSize, h.longSize,
              h.floatSize, h.doubleSize >>
        \o le(h.oskarVersion)
        \o le(h.reserved0) \o le(h.reserved1) \o le(h.reserved2)
        \o le(h.reserved3) \o le(h.reserved4) \o le(h.reserved5)

\* the unsigned 32-bit value of the bytes at file offsets 16..19
AppVersionAt16 == << file[20] * 256 + file[19], file[18] * 256 + file[17] >>

\* C9: a header with the correct magic and all-zero reserved bytes parses, each
\* non-reserved field has the value encoded at its fixed offset, and encoding
\* the parsed fields gives the same 64 bytes.
C9_HeaderFieldsRoundTrip ==
    (pc # "header" /\ WellFormedHeader) =>
        /\ header # << >>
        /\ LET h == header[1]
           IN  /\ h.desc = Signature
               /\ h.ver = file[10]
               /\ h.littleEndinan = file[11]
               /\ h.voidptrSize = file[12]
               /\ h.intSize = file[13]
               /\ h.longSize = file[14]
               /\ h.floatSize = file[15]
               /\ h.doubleSize = file[16]
               /\ h.oskarVersion = AppVersionAt16
               /\ EncodeHeader(h) = HeaderBytes

C9_WellFormedHeaderParsed ==
    /\ WellFormedHeader
    /\ header # << >>
    /\ header[1].oskarVersion = << 33021, 65279 >>
    /\ header[1].doubleSize = 16
    /\ header[1].ver = 1

\* C10: the numeric header fields are decoded as unsigned little-endian
\* integers whatever the isLittleEndian byte is: the header that differs only
\* in that byte parses to the same value in every other field.
C10_FlagDoesNotChangeDecoding ==
    header # << >> =>
        LET flipped == [HeaderBytes EXCEPT ![11] = 1 - HeaderBytes[11]]
            other == create_from_bytes(FileHeader, flipped)
        IN  /\ header[1].oskarVersion = AppVersionAt16
            /\ other.error = ""
            /\ \A f \in (DOMAIN header[1]) \ { "littleEndinan" } :
                    other.obj[f] = header[1][f]
            /\ other.obj.littleEndinan = 1 - header[1].littleEndinan

C10_BigEndianFlagParsed ==
    /\ header # << >>
    /\ header[1].littleEndinan = 0
    /\ header[1].oskarVersion = << 33021, 65279 >>
    /\ header[1].reserved0 = << 0, 0, 0, 7 >>

\* C11: decoding a tag succeeds for every 20-byte input, whatever its content,
\* and fails only when the input is not exactly 20 bytes long; the three
\* marker bytes, payloadElementSize, chunkFlags, payloadDataType, groupID and
\* tagID are bytes 0-7, userIdx the little-endian uint32 at bytes 8-11 and
\* payloadSize the little-endian uint64 at bytes 12-19.
C11_TagDecodesAtFixedOffsets ==
    (rawTag # << >> /\ pc # "parseTag") =>
        LET b == rawTag[1]
        IN  IF Len(b) # TAG_SIZE
            THEN tag = << >> /\ pc = "raised" /\ err = "struct.error"
            ELSE /\ tag # << >>
                 /\ err # "struct.error"
                 /\ tag[1].t = << b[1] >>
                 /\ tag[1].AorB = << b[2] >>
                 /\ tag[1].g = << b[3] >>
                 /\ tag[1].payloadElementSize = b[4]
                 /\ tag[1].chunkFlags = b[5]
                 /\ tag[1].payloadDataType = b[6]
                 /\ tag[1].groupID = b[7]
                 /\ tag[1].tagID = b[8]
                 /\ tag[1].userIdx = << b[12] * 256 + b[11], b[10] * 256 + b[9] >>
                 /\ tag[1].payloadSize =
                        << b[20] * 256 + b[19], b[18] * 256 + b[17],
                           b[16] * 256 + b[15], b[14] * 256 + b[13] >>

C11_UnusualTagDecoded ==
    /\ rawTag = << << 0, 255, 10, 255, 208, 255, 200, 77,
                      1, 2, 3, 255, 1, 2, 3, 4, 5, 6, 7, 200 >> >>
    /\ tag # << >>
    /\ tag[1].groupID = 200
    /\ tag[1].tagID = 77
    /\ tag[1].userIdx = << 65283, 513 >>
    /\ tag[1].payloadSize = << 51207, 1541, 1027, 513 >>

\* a payloadDataType byte with exactly one of bits 0-3 and neither bit 4 nor
\* bit 7
SaneByte(b) ==
    /\ Cardinality({ k \in 0..3 : Bit(b, k) = 1 }) = 1
    /\ Bit(b, 4) = 0
    /\ Bit(b, 7) = 0

\* C12: each predicate of a tag is decided by one bit: is_payload_big_endian
\* by chunkFlags bit 4, uses_crc32c by bit 6, is_extended by bit 7; is_char,
\* is_int, is_float, is_double by payloadDataType bits 0, 1, 2, 3, is_complex
\* by bit 5, is_matrix by bit 6.  For a sane tag exactly one of is_char,
\* is_int, is_float, is_double is true.
C12_PredicatesReadOneBit ==
    preds # << >> =>
        LET p == preds[1]
            f == tag[1].chunkFlags
            d == tag[1].payloadDataType
        IN  /\ (p.isPayloadBigEndian # 0) <=> (Bit(f, 4) = 1)
            /\ (p.usesCRC32CEncoding # 0) <=> (Bit(f, 6) = 1)
            /\ (p.isTagExtended # 0) <=> (Bit(f, 7) = 1)
            /\ p.isCharType <=> (Bit(d, 0) = 1)
            /\ p.isIntType <=> (Bit(d, 1) = 1)
            /\ p.isFloatType <=> (Bit(d, 2) = 1)
            /\ p.isDoubleType <=> (Bit(d, 3) = 1)
            /\ (p.isComplex # 0) <=> (Bit(d, 5) = 1)
            /\ (p.isMatrix # 0) <=> (Bit(d, 6) = 1)
            /\ SaneByte(d) =>
                 Cardinality({ q \in { "isCharType", "isIntType", "isFloatType",
                                       "isDoubleType" } : p[q] }) = 1

C12_DoubleComplexPredicates ==
    /\ preds # << >>
    /\ tag[1].payloadDataType = 40
    /\ preds[1].isDoubleType
    /\ ~preds[1].isCharType
    /\ preds[1].isComplex # 0
    /\ preds[1].isMatrix = 0

\* the parts of a type description that have been printed
Described ==
    SelectSeq(stdout,
        LAMBDA l : l \in { "1 byte char type ", "4 byte integer type ",
                           "4 byte float type ", "8 byte double type ",
                           "complex data, first real, than imaginary ",
                           "2x2 matrix data, [ab, cd] " })

\* the element width in bytes a description names
DescribedWidth(desc) ==
    IF desc = << >> THEN 0
    ELSE CASE desc[1] = "1 byte char type " -> 1
           [] desc[1] = "4 byte integer type " -> 4
           [] desc[1] = "4 byte float type " -> 4
           [] desc[1] = "8 byte double type " -> 8
           [] OTHER -> 0

\* the element kind a description names
DescribedKind(desc) ==
    IF desc = << >> THEN "none"
    ELSE CASE desc[1] = "1 byte char type " -> "char"
           [] desc[1] = "4 byte integer type " -> "int32"
           [] desc[1] = "4 byte float type " -> "float32"
           [] desc[1] = "8 byte double type " -> "float64"
           [] OTHER -> "none"

\* the scalars per element a description names: real and imaginary part for
\* complex data, a, b, c, d for a 2x2 matrix
DescribedMultiplier(desc) ==
    (IF \E k \in 1..Len(desc) : desc[k] = "complex data, first real, than imaginary "
     THEN 2 ELSE 1)
    * (IF \E k \in 1..Len(desc) : desc[k] = "2x2 matrix data, [ab, cd] "
       THEN 4 ELSE 1)

ElementWidth(d) ==
    CASE Bit(d, 0) = 1 -> 1
      [] Bit(d, 1) = 1 -> 4
      [] Bit(d, 2) = 1 -> 4
      [] Bit(d, 3) = 1 -> 8

ShapeMultiplier(d) ==
    (IF Bit(d, 5) = 1 THEN 2 ELSE 1) * (IF Bit(d, 6) = 1 THEN 4 ELSE 1)

\* the payload handed to the decoder is a whole number of elements of the tag
WholeElements ==
    Len(rawPayload[1])
        % (ElementWidth(tag[1].payloadDataType) * ShapeMultiplier(tag[1].payloadDataType)) = 0

\* the decoder was called with a payload of at least one byte for a tag that
\* is not char
NumbersDecoded ==
    DecoderCalled /\ Bit(tag[1].payloadDataType, 0) = 0 /\ Len(rawPayload[1]) > 0

\* C14: for a tag that is not char the decoder raises when the payload length
\* is not divisible by element width x shape multiplier, and returns a
\* sequence of numbers when it is.
C14_NumbersDecodedOrRejected ==
    NumbersDecoded =>
        IF WholeElements
        THEN pc = "done" /\ payload # << >> /\ payload[1].type = "list"
        ELSE pc = "raised" /\ payload = << >>

\* the scalars of a payload: the value of each chunk of w bytes, in order, as
\* the unsigned integer its bytes encode (least significant byte first, or
\* last when big)
ChunkValues(bs, w, big) ==
    [k \in 1..(Len(bs) \div w) |->
        LET chunk == SubSeq(bs, (k - 1) * w + 1, k * w)
        IN  UnsignedLE(IF big THEN Reverse(chunk) ELSE chunk)]

\* C15: for a tag that is not char and a payload of valid length the decoder
\* returns payload_length / element_width scalars, one per chunk of the
\* payload in file order (the parts of a complex value and the entries of a
\* matrix one after the other).
C15_ScalarsInFileOrder ==
    (NumbersDecoded /\ WholeElements) =>
        LET w == ElementWidth(tag[1].payloadDataType)
        IN  /\ payload # << >>
            /\ Len(payload[1].val) = Len(rawPayload[1]) \div w
            /\ payload[1].val
                 = ChunkValues(rawPayload[1], w, Bit(tag[1].chunkFlags, 4) = 1)

\* the payload with each chunk of w bytes reversed
SwapChunks(bs, w) ==
    [k \in 1..Len(bs) |-> bs[((k - 1) \div w) * w + (w - ((k - 1) % w))]]

\* C16: with the big-endian flag set each element-width chunk is byte-swapped
\* before it is interpreted: the decoder returns the scalars it returns for
\* the chunk-reversed payload under the same tag without the flag.
C16_BigEndianChunksSwapped ==
    (NumbersDecoded /\ WholeElements /\ Bit(tag[1].chunkFlags, 4) = 1) =>
        LET w == ElementWidth(tag[1].payloadDataType)
            plain == [tag[1] EXCEPT !.chunkFlags = @ - 16]
            other == interpretePayloadData(SwapChunks(rawPayload[1], w), plain)
        IN  /\ payload # << >>
            /\ other.error = ""
            /\ payload[1] = other.value
            /\ payload[1].type = "list"
            /\ Len(payload[1].val) = Len(rawPayload[1]) \div w

\* C17: for a char tag, whatever its complex and matrix bits, the decoder
\* returns the payload as the text it encodes in UTF-8, and raises when the
\* payload is not valid UTF-8.
C17_CharPayloadIsText ==
    (DecoderCalled /\ Bit(tag[1].payloadDataType, 0) = 1) =>
        LET p == rawPayload[1]
        IN  /\ pc = "done" =>
                 /\ payload[1].type = "str"
                 /\ Len(payload[1].val) <= Len(p)
            /\ pc = "raised" =>
                 err = "UnicodeDecodeError" /\ payload = << >> /\ ~Printed("payload")
            /\ (\A k \in 1..Len(p) : p[k] < 128) =>
                 pc = "done" /\ payload[1].val = p
            /\ (\E k \in 1..Len(p) : p[k] \in { 192, 193 } \cup (245..255)) =>
                 pc = "raised"
            /\ p = << 195, 169 >> => pc = "done" /\ payload[1].val = << 233 >>
            /\ p = << 104, 226, 130, 172 >> =>
                 pc = "done" /\ payload[1].val = << 104, 8364 >>
            /\ p = << 240, 159, 146, 150 >> =>
                 pc = "done" /\ payload[1].val = << 128150 >>
            /\ p \in { << 104, 195 >>, << 237, 160, 128 >>, << 192, 128 >> } =>
                 pc = "raised"

C17_ComplexCharDecodedAsText ==
    /\ pc = "done"
    /\ Bit(tag[1].payloadDataType, 0) = 1
    /\ Bit(tag[1].payloadDataType, 5) = 1
    /\ payload[1].type = "str"
    /\ Len(payload[1].val) < Len(rawPayload[1])

\* the offset behind the last whole record of the file, walking from the tag
\* at offset off by the payloadSize of each tag
RECURSIVE EndOfRecords(_)
EndOfRecords(off) ==
    IF off + TAG_SIZE > Len(file) \/ off + TAG_SIZE + DeclaredSize(off) > Len(file)
    THEN off
    ELSE EndOfRecords(off + TAG_SIZE + DeclaredSize(off))

\* the number of whole records from offset off on
RECURSIVE CountRecords(_)
CountRecords(off) ==
    IF off + TAG_SIZE > Len(file) \/ off + TAG_SIZE + DeclaredSize(off) > Len(file)
    THEN 0
    ELSE 1 + CountRecords(off + TAG_SIZE + DeclaredSize(off))

\* the record at offset off has a sane type and, with the CRC flag, a payload
\* that ends in the CRC-32C of its tag and the payload before it
RECURSIVE SoundRecords(_)
SoundRecords(off) ==
    IF off >= EndOfRecords(off) THEN TRUE
    ELSE LET t == SubSeq(file, off + 1, off + TAG_SIZE)
             p == SubSeq(file, off + TAG_SIZE + 1, off + TAG_SIZE + DeclaredSize(off))
             s == LastBytes(p, 4)
         IN  /\ SaneByte(t[6])
             /\ Bit(t[5], 6) = 1
             /\ Len(p) >= 4
             /\ << s[4] * 256 + s[3], s[2] * 256 + s[1] >>
                    = crc32c(t \o DropLastBytes(p, 4))
             /\ SoundRecords(off + TAG_SIZE + DeclaredSize(off))

\* a header and whole records up to the last byte of the file
WellFormedFile ==
    /\ WellFormedHeader
    /\ file[10] >= 2
    /\ EndOfRecords(HEADER_SIZE) = Len(file)
    /\ SoundRecords(HEADER_SIZE)

\* readBinaryFile has returned or raised
Ended == pc \in { "done", "raised" }

\* the records handed out so far
Yielded == Len(SelectSeq(stdout, LAMBDA l : l = "payload"))

\* C18: the scan of a well-formed file of N records, N >= 0, yields N records
\* and ends at the end of the file without an error.
C18_EveryRecordYieldedOnce ==
    (WellFormedFile /\ Ended) =>
        /\ err = ""
        /\ Yielded = CountRecords(HEADER_SIZE)
        /\ pos = Len(file)

\* C19: the first tag is read at offset 64, the read position is never behind
\* the end of the file's data, and a yielded record has moved it by exactly
\* 20 + payloadSize.
C19_CursorAtTagBoundaries ==
    /\ pc = "tag" => pos = HEADER_SIZE
    /\ rawTag # << >> => pos >= HEADER_SIZE + Len(rawTag[1])
    /\ pos <= Len(file)
    /\ (pc = "done" /\ Yielded = 1) =>
            pos = HEADER_SIZE + TAG_SIZE + DeclaredSize(HEADER_SIZE)

\* the first tag declares more payload bytes than the file has behind it
PayloadTruncated ==
    /\ tag # << >>
    /\ DeclaredSize(HEADER_SIZE) > Len(file) - (HEADER_SIZE + TAG_SIZE)

\* C20: when a tag declares more payload bytes than remain in the file the
\* scan ends in an error and no record is yielded for that tag.
C20_TruncatedPayloadAborts ==
    (PayloadTruncated /\ Ended) =>
        /\ pc = "raised"
        /\ payload = << >>
        /\ Yielded = 0

C22_DoneOnlyAtEndOfFile ==
    /\ pc = "done" => pos = Len(file)
    /\ (rawTag = << << >> >> /\ pos = Len(file)) => err = ""

\* C24: the header is read before any tag, and for a record the steps run in
\* the order tag decode, type-descriptor sanity check, integrity check,
\* payload decode; no payload is decoded before its checksum was verified.
C24_StepsInOrder ==
    /\ rawTag # << >> => header # << >>
    /\ Printed("check CRC...") => sane # << >>
    /\ crcIO # << >> => sane # << >>
    /\ DecoderCalled => crcIO = << TRUE >>

\* C26: checkCRC gives the caller a flag and a payload on both of its paths:
\* after the call the caller holds both, for a header of any version.
C26_CheckReturnsFlagAndPayload ==
    CheckCRCDone =>
        /\ err # "TypeError: cannot unpack non-iterable bool object"
        /\ crcIO # << >>
        /\ checkCRC(FALSE, rawTag[1], FilePayload).tuple
             = checkCRC(TRUE, rawTag[1], FilePayload).tuple

\* C25: when the checksum applies, the computed CRC covers all 20 tag bytes
\* and the stored CRC is read from payload bytes only, for every payload
\* length: a record verifies only if its payload ends in the 4-byte CRC-32C
\* of the whole tag and the payload before those 4 bytes, so a payload of 0 to
\* 3 bytes never verifies.
C25_StoredCRCOnlyFromPayload ==
    (CRCApplies /\ crcIO = << TRUE >>) =>
        /\ Len(FilePayload) >= 4
        /\ StoredCRCMatches

\* C23: the file object and the memory map that readBinaryFile opened are
\* closed on every exit path: when the call has returned or raised, neither is
\* open.
C23_ResourcesReleased ==
    Ended => f_obj # "open" /\ buff # "open"

\* C27: from_buffer and create_from_bytes decode a structure alike: the
\* ctypes layout has the size and the field offsets of the packed format, 64
\* bytes for FileHeader (oskarVersion at 16, the reserved fields from 20) and
\* 20 bytes for Tag (userIdx at 8, payloadSize at 12), with no padding, so
\* that on the same bytes both give the same fields.
C27_LayoutsAgree ==
    (packed # << >> /\ mapped # << >>) =>
        /\ sizeof(FileHeader) = HEADER_SIZE
        /\ FieldOffset(FileHeader, 9) = 16
        /\ FieldOffset(FileHeader, 10) = 20
        /\ sizeof(Tag) = TAG_SIZE
        /\ FieldOffset(Tag, 9) = 8
        /\ FieldOffset(Tag, 10) = 12
        /\ packed[1].error = "" =>
                mapped[1].error = "" /\ mapped[1].obj = packed[1].obj
        /\ mapped[1].error = "" =>
                LET n == IF cls[1].name = "Tag" THEN TAG_SIZE ELSE HEADER_SIZE
                IN  mapped[1].obj = create_from_bytes(cls[1], SubSeq(source, 1, n)).obj

\* C29: is_first_node, get_node_id and get_lowest_node_id end with a value
\* (no exception, no unbounded recursion) in every SLURM environment that
\* has the required variables set, the one-node job included.
C29_NodeFunctionsReturn ==
    result # << >> => result[1].error = ""

\* the clients that get_dask_client calls have returned so far
ReturnedClients ==
    { returned[k].value : k \in { i \in 1..Len(returned) : returned[i].error = "" } }

\* C30: over any sequence of get_dask_client calls in one process at most
\* one client is created and every call that returns gives that client.
C30_OneClientPerProcess ==
    /\ clients <= 1
    /\ Cardinality(ReturnedClients) <= 1

\* the stored client is the only one ever returned
ReturnsTheStoredClient ==
    ReturnedClients \subseteq { dask_client[k] : k \in 1..Len(dask_client) }

\* once DaskHandler.dask_client is set no step replaces it
StoredClientKept ==
    [][dask_client # << >> => dask_client' = dask_client]_vars

\* C28: a node that is not the first never reads the info file while it is
\* being written, and what it loads is what the first node wrote in this
\* run, never the file of an earlier run.
C28_WorkersReadCurrentInfo ==
    \A k \in 1..Len(node) :
        /\ node[k].error # "JSONDecodeError"
        /\ node[k].dask_info # << >> =>
                clients > 0 /\ node[k].dask_info = WrittenInfo(clients).content

====
